---- MODULE Spec2Model ----
(***************************************************************************)
(* Model of the neutron-source package: the Source entity of               *)
(* src/src/source/source.py, the Magnitude quantities it stores, and the   *)
(* closed-form equations of src/src/equations.py.                          *)
(*                                                                         *)
(* Numbers are exact.  A real number is kept in the closed form            *)
(*      q * 2^(-e) * pi^p * sqrt(a + b * ln(2)^2)                          *)
(* with q, e, a, b rationals and p an integer, which is closed under every *)
(* arithmetic step the package performs (products, quotients, exp of a     *)
(* multiple of -ln 2, root of a sum of squares).                           *)
(***************************************************************************)
EXTENDS Integers, Sequences, FiniteSets, TLC

----------------------------------------------------------------------------
(* Rational numbers.  The years-to-days factor 365.242 = 182621 / 500 is   *)
(* squared by the uncertainty formulas, and 182621 ^ 2 leaves the integer  *)
(* range, so a rational is kept as  (n / d) * 182621 ^ y  with n / d in    *)
(* lowest terms, d > 0 and every whole factor 182621 moved into y.  Sums   *)
(* are taken between rationals of the same y only.                         *)

YearsToDaysNumerator == 182621

Abs(i) == IF i < 0 THEN -i ELSE i

RECURSIVE Gcd(_, _)
Gcd(i, j) == IF j = 0 THEN i ELSE Gcd(j, i % j)

RECURSIVE PullFactor(_, _, _)
PullFactor(n, d, y) ==
    IF n = 0 THEN [n |-> 0, d |-> 1, y |-> 0]
    ELSE IF n % YearsToDaysNumerator = 0 THEN PullFactor(n \div YearsToDaysNumerator, d, y + 1)
    ELSE IF d % YearsToDaysNumerator = 0 THEN PullFactor(n, d \div YearsToDaysNumerator, y - 1)
    ELSE [n |-> n, d |-> d, y |-> y]

Reduced(n, d, g, y) ==
    IF d < 0 THEN PullFactor(-(n \div g), -(d \div g), y)
    ELSE PullFactor(n \div g, d \div g, y)

RatY(n, d, y) == Reduced(n, d, Gcd(Abs(n), Abs(d)), y)

Rat(n, d) == RatY(n, d, 0)

RatInt(i) == Rat(i, 1)

(* No value: TLC stops when a sum of unlike rationals is asked for. *)
Unsupported == CHOOSE r \in {} : TRUE

SumOver(x, y, g) ==
    RatY(x.n * (y.d \div g) + y.n * (x.d \div g), (x.d \div g) * y.d, x.y)

RatAdd(x, y) ==
    IF x.n = 0 THEN y
    ELSE IF y.n = 0 THEN x
    ELSE IF x.y # y.y THEN Unsupported
    ELSE SumOver(x, y, Gcd(x.d, y.d))

RatNeg(x) == [x EXCEPT !.n = -x.n]

RatSub(x, y) == RatAdd(x, RatNeg(y))

ProductOver(x, y, g1, g2) ==
    RatY((x.n \div g1) * (y.n \div g2), (x.d \div g2) * (y.d \div g1), x.y + y.y)

RatMul(x, y) == ProductOver(x, y, Gcd(Abs(x.n), y.d), Gcd(Abs(y.n), x.d))

RatInv(x) == RatY(x.d, x.n, -x.y)

RatDiv(x, y) == RatMul(x, RatInv(y))

RatSq(x) == RatMul(x, x)

RatSign(x) == IF x.n < 0 THEN -1 ELSE IF x.n = 0 THEN 0 ELSE 1

(* Integer square root by bisection; 46340^2 is the largest square below 2^31. *)
RECURSIVE ISqrtIn(_, _, _)
ISqrtIn(n, lo, hi) ==
    IF lo >= hi THEN lo
    ELSE IF ((lo + hi + 1) \div 2) * ((lo + hi + 1) \div 2) <= n
    THEN ISqrtIn(n, (lo + hi + 1) \div 2, hi)
    ELSE ISqrtIn(n, lo, (lo + hi + 1) \div 2 - 1)

ISqrt(n) == ISqrtIn(n, 0, 46340)

IsSquare(n) == n >= 0 /\ ISqrt(n) * ISqrt(n) = n

RatIsSquare(x) == IsSquare(x.n) /\ IsSquare(x.d) /\ x.y % 2 = 0

RatSqrt(x) == [n |-> ISqrt(x.n), d |-> ISqrt(x.d), y |-> x.y \div 2]

----------------------------------------------------------------------------
(* Real numbers in closed form:                                             *)
(*   zero is q = 0, e = 0, p = 0, a = 1, b = 0;                             *)
(*   a radicand that is the square of a rational is folded into q           *)
(*   (a = 1, b = 0);                                                        *)
(*   any other radicand stays under the root as the sum of squares that     *)
(*   made it, and a factor it is multiplied by stays in q, so that the      *)
(*   same computation gives the same record.                                *)

R0 == RatInt(0)
R1 == RatInt(1)

Num(q, e, p, a, b) ==
    IF q.n = 0 \/ (a.n = 0 /\ b.n = 0)
    THEN [q |-> R0, e |-> R0, p |-> 0, a |-> R1, b |-> R0]
    ELSE IF b.n = 0 /\ RatIsSquare(a)
    THEN [q |-> RatMul(q, RatSqrt(a)), e |-> e, p |-> p, a |-> R1, b |-> R0]
    ELSE [q |-> q, e |-> e, p |-> p, a |-> a, b |-> b]

NumRat(r) == Num(r, R0, 0, R1, R0)

NumInt(i) == NumRat(RatInt(i))

NumFrac(n, d) == NumRat(Rat(n, d))

Zero == NumInt(0)

One == NumInt(1)

NumSign(x) == RatSign(x.q)

IsNeg(x) == NumSign(x) < 0

IsZero(x) == NumSign(x) = 0

(* x * y; at most one factor carries a ln(2) term under its root. *)
NumMul(x, y) ==
    Num(RatMul(x.q, y.q), RatAdd(x.e, y.e), x.p + y.p,
        RatMul(x.a, y.a), RatAdd(RatMul(x.a, y.b), RatMul(x.b, y.a)))

(* x / y for y # 0 with no ln(2) term under its root. *)
NumDiv(x, y) ==
    Num(RatDiv(x.q, y.q), RatSub(x.e, y.e), x.p - y.p,
        RatDiv(x.a, y.a), RatDiv(x.b, y.a))

(* sqrt(x^2 + y^2) for x, y free of powers of 2^(-e) and of pi. *)
NumHypot(x, y) ==
    Num(R1, R0, 0,
        RatAdd(RatMul(RatSq(x.q), x.a), RatMul(RatSq(y.q), y.a)),
        RatAdd(RatMul(RatSq(x.q), x.b), RatMul(RatSq(y.q), y.b)))

(* exp(-log(2) * r) for a rational r. *)
NumExpNegLn2(r) == Num(R1, r, 0, R1, R0)

(* sqrt((log(2) * r) ^ 2 * s) for rationals r and s >= 0. *)
NumLn2Root(r, s) == Num(R1, R0, 0, R0, RatMul(RatSq(r), s))

NumPi == Num(R1, R0, 1, R1, R0)

----------------------------------------------------------------------------
(* Python values held in attributes and passed as arguments.  A Magnitude   *)
(* is an object with identity: a reference into the heap.                   *)

None == [t |-> "None"]

Str(s) == [t |-> "str", s |-> s]

Ref(i) == [t |-> "Magnitude", id |-> i]

IsRef(v) == v.t = "Magnitude"

(* A date string, as the text of its three fields: '2012/05/20' and          *)
(* '2012/5/20' are different strings (pad) that strptime parses alike.       *)
Date(y, m, d, pad) == [t |-> "str", y |-> y, m |-> m, d |-> d, pad |-> pad]

IsDateStr(v) == v.t = "str" /\ "y" \in DOMAIN v

----------------------------------------------------------------------------
(* Magnitude: the quantity type the package imports.                        *)

Ok == "ok"
UncertaintiesMustBePositive == "Uncertainties must be positive."
ZeroDivisionError == "ZeroDivisionError"
TypeError == "TypeError"
AttributeError == "AttributeError"
KeyError == "KeyError"
TimeDataError == "ValueError: time data does not match format"

Mag(value, unit, uncertainty, relative_uncertainty) ==
    [value |-> value, unit |-> unit, uncertainty |-> uncertainty,
     relative_uncertainty |-> relative_uncertainty]

NoMag == Mag(Zero, "", Zero, Zero)

Fail(e) == [err |-> e, m |-> NoMag]

Done(m) == [err |-> Ok, m |-> m]

(* Magnitude(value, unit, uncertainty=u) or (..., relative_uncertainty=u):   *)
(* the other form is derived, and a negative form, given or derived, is      *)
(* refused.  There is no test of the value itself.                           *)
MagnitudeChecked(value, unit, uncertainty, relative_uncertainty) ==
    IF IsNeg(uncertainty) \/ IsNeg(relative_uncertainty)
    THEN Fail(UncertaintiesMustBePositive)
    ELSE Done(Mag(value, unit, uncertainty, relative_uncertainty))

MagnitudeInit(value, unit, form, u) ==
    IF form = "uncertainty"
    THEN IF IsZero(value) THEN Fail(ZeroDivisionError)
         ELSE MagnitudeChecked(value, unit, u, NumDiv(u, value))
    ELSE MagnitudeChecked(value, unit, NumMul(value, u), u)

UnitMul(u1, u2) == u1 \o "·" \o u2

UnitDiv(u1, u2) == u1 \o "/" \o u2

(* a * b: a new Magnitude; relative uncertainties add in quadrature. *)
MagnitudeMul(a, b) ==
    MagnitudeInit(NumMul(a.value, b.value), UnitMul(a.unit, b.unit),
                  "relative_uncertainty",
                  NumHypot(a.relative_uncertainty, b.relative_uncertainty))

(* a / b: a new Magnitude; relative uncertainties add in quadrature. *)
MagnitudeDiv(a, b) ==
    IF IsZero(b.value) THEN Fail(ZeroDivisionError)
    ELSE MagnitudeInit(NumDiv(a.value, b.value), UnitDiv(a.unit, b.unit),
                       "relative_uncertainty",
                       NumHypot(a.relative_uncertainty, b.relative_uncertainty))

----------------------------------------------------------------------------
(* Dates: datetime.strptime(text, '%Y/%m/%d') and the day difference.       *)

IsLeap(y) == y % 4 = 0 /\ (y % 100 # 0 \/ y % 400 = 0)

DaysInMonth(y, m) ==
    IF m = 2 THEN (IF IsLeap(y) THEN 29 ELSE 28)
    ELSE IF m \in {4, 6, 9, 11} THEN 30 ELSE 31

RECURSIVE DaysBeforeMonth(_, _)
DaysBeforeMonth(y, m) ==
    IF m <= 1 THEN 0 ELSE DaysBeforeMonth(y, m - 1) + DaysInMonth(y, m - 1)

DaysBeforeYear(y) ==
    (y - 1) * 365 + (y - 1) \div 4 - (y - 1) \div 100 + (y - 1) \div 400

Ordinal(y, m, d) == DaysBeforeYear(y) + DaysBeforeMonth(y, m) + d

(* strptime accepts the text when it names a day of the calendar. *)
Parses(v) ==
    /\ IsDateStr(v)
    /\ v.y \in 1..9999
    /\ v.m \in 1..12
    /\ v.d \in 1..DaysInMonth(v.y, v.m)

(* _elapsed_time: [err, t] with t the whole days from initial to final. *)
ElapsedTime(initial_date, final_date) ==
    IF initial_date.t # "str" \/ final_date.t # "str"
    THEN [err |-> TypeError, t |-> 0]
    ELSE IF ~Parses(initial_date) \/ ~Parses(final_date)
    THEN [err |-> TimeDataError, t |-> 0]
    ELSE [err |-> Ok,
          t |-> Ordinal(final_date.y, final_date.m, final_date.d)
                - Ordinal(initial_date.y, initial_date.m, initial_date.d)]

----------------------------------------------------------------------------
(* Module data of source.py.                                                *)

time_uncertainty_days == NumInt(1)

conversion_years_to_days == NumFrac(365242, 1000)

standard_units ==
    [calibration_strength |-> "1/s",
     half_life |-> "y",
     anisotropy_factor |-> "ND",
     linear_attenuation_coefficient |-> "1/cm",
     fluence_to_dose_conversion_factor |-> "pSv·cm²",
     neutron_effectiveness |-> "ND",
     total_air_scatter_component |-> "1/cm"]

(* The Magnitude attributes in the order Source.__init__ declares them. *)
DeclaredAttributes ==
    << "calibration_strength", "half_life", "anisotropy_factor",
       "linear_attenuation_coefficient", "fluence_to_dose_conversion_factor",
       "neutron_effectiveness", "total_air_scatter_component" >>

Range(f) == {f[i] : i \in DOMAIN f}

----------------------------------------------------------------------------
(* Source: the instance is its __dict__, a function from attribute names.   *)

ValueMustBePositive(attr) == "Source " \o attr \o " value must be positive."
UncertaintyMustBePositive(attr) == "Source " \o attr \o " uncertainty must be positive."
RelativeUncertaintyMustBePositive(attr) ==
    "Source " \o attr \o " relative uncertainty must be positive."
UnitsMustBeStandard(attr) == "Source " \o attr \o " units must be standard."

(* numeric_attributes: every entry of __dict__ but name and calibration_date. *)
numeric_attributes(dict) ==
    [attr \in DOMAIN dict \ {"name", "calibration_date"} |-> dict[attr]]

(* check_consistency without its last test: the unit is never compared. *)
check_consistency_unit_unchecked(dict, h, attr) ==
    IF dict[attr] = None THEN Ok
    ELSE IF ~IsRef(dict[attr]) THEN AttributeError
    ELSE IF IsNeg(h[dict[attr].id].value) THEN ValueMustBePositive(attr)
    ELSE IF IsNeg(h[dict[attr].id].uncertainty) THEN UncertaintyMustBePositive(attr)
    ELSE IF IsNeg(h[dict[attr].id].relative_uncertainty)
    THEN RelativeUncertaintyMustBePositive(attr)
    ELSE Ok

(* check_consistency with the unit compared before the numbers. *)
check_consistency_unit_first(dict, h, attr) ==
    IF dict[attr] = None THEN Ok
    ELSE IF ~IsRef(dict[attr]) THEN AttributeError
    ELSE IF attr \notin DOMAIN standard_units THEN KeyError
    ELSE IF h[dict[attr].id].unit # standard_units[attr] THEN UnitsMustBeStandard(attr)
    ELSE IF IsNeg(h[dict[attr].id].value) THEN ValueMustBePositive(attr)
    ELSE IF IsNeg(h[dict[attr].id].uncertainty) THEN UncertaintyMustBePositive(attr)
    ELSE IF IsNeg(h[dict[attr].id].relative_uncertainty)
    THEN RelativeUncertaintyMustBePositive(attr)
    ELSE Ok

(* check_consistency without the test for None: None has no value to read. *)
check_consistency_none_read(dict, h, attr) ==
    IF ~IsRef(dict[attr]) THEN AttributeError
    ELSE IF IsNeg(h[dict[attr].id].value) THEN ValueMustBePositive(attr)
    ELSE IF IsNeg(h[dict[attr].id].uncertainty) THEN UncertaintyMustBePositive(attr)
    ELSE IF IsNeg(h[dict[attr].id].relative_uncertainty)
    THEN RelativeUncertaintyMustBePositive(attr)
    ELSE IF attr \notin DOMAIN standard_units THEN KeyError
    ELSE IF h[dict[attr].id].unit # standard_units[attr] THEN UnitsMustBeStandard(attr)
    ELSE Ok

(* check_consistency: the message of the ValueError raised, or Ok. *)
check_consistency(dict, h, attr) ==
    LET magnitude == dict[attr] IN
    IF magnitude = None THEN Ok
    ELSE IF ~IsRef(magnitude) THEN AttributeError
    ELSE LET m == h[magnitude.id] IN
         IF IsNeg(m.value) THEN ValueMustBePositive(attr)
         ELSE IF IsNeg(m.uncertainty) THEN UncertaintyMustBePositive(attr)
         ELSE IF IsNeg(m.relative_uncertainty) THEN RelativeUncertaintyMustBePositive(attr)
         ELSE IF attr \notin DOMAIN standard_units THEN KeyError
         ELSE IF m.unit # standard_units[attr] THEN UnitsMustBeStandard(attr)
         ELSE Ok

(* __setattr__ that checks the value of a numeric attribute and writes only  *)
(* the other attributes.                                                     *)
setattr_numeric_unwritten(dict, h, name, value) ==
    IF name \in {"name", "calibration_date"}
    THEN [dict |-> [dict EXCEPT ![name] = value], err |-> Ok]
    ELSE [dict |-> dict,
          err |-> check_consistency([dict EXCEPT ![name] = value], h, name)]

(* __setattr__ that checks whatever attribute it has written. *)
setattr_all_checked(dict, h, name, value) ==
    [dict |-> [a \in DOMAIN dict \cup {name} |-> IF a = name THEN value ELSE dict[a]],
     err |-> check_consistency([a \in DOMAIN dict \cup {name} |->
                                   IF a = name THEN value ELSE dict[a]], h, name)]

(* __setattr__: the entry is written first and checked afterwards. *)
setattr(dict, h, name, value) ==
    LET stored == [a \in DOMAIN dict \cup {name} |-> IF a = name THEN value ELSE dict[a]]
    IN  [dict |-> stored,
         err |-> IF name \in DOMAIN numeric_attributes(stored)
                 THEN check_consistency(stored, h, name)
                 ELSE Ok]

(* The keys of __dict__ after Source.__init__, in the order it assigns them. *)
DeclaredKeys == << "name", "calibration_date" >> \o DeclaredAttributes

(* self.__dict__[name] = value: a new key goes last, a key already there     *)
(* keeps its place.                                                          *)
Inserted(order, name) == IF name \in Range(order) THEN order ELSE Append(order, name)

(* What iterating numeric_attributes() yields: the keys of the dictionary,   *)
(* in the order of __dict__.                                                 *)
numeric_attributes_keys(order) ==
    SelectSeq(order, LAMBDA attr : attr # "name" /\ attr # "calibration_date")

(* attr, magnitude = item, with item a string: its characters are unpacked. *)
Unpacked(item) ==
    IF Len(item) = 2 THEN Ok
    ELSE IF Len(item) > 2 THEN "ValueError: too many values to unpack (expected 2)"
    ELSE "ValueError: not enough values to unpack (expected 2)"

(* for attr, magnitude in <listing>: the first item that does not unpack     *)
(* ends the loop.                                                            *)
Iterated(listing) ==
    IF \A i \in DOMAIN listing : Unpacked(listing[i]) = Ok THEN Ok
    ELSE Unpacked(listing[CHOOSE i \in DOMAIN listing :
                              /\ Unpacked(listing[i]) # Ok
                              /\ \A j \in 1..(i - 1) : Unpacked(listing[j]) = Ok])

(* Source.__init__: name is the class name, every other attribute None. *)
SourceInit(class) ==
    [a \in {"name", "calibration_date"} \cup Range(DeclaredAttributes) |->
        IF a = "name" THEN Str(class) ELSE None]

(* Constructor arguments of one Magnitude(value, unit, <form>=u). *)
Args(value, unit, form, u) == [value |-> value, unit |-> unit, form |-> form, u |-> u]

New(args) == MagnitudeInit(args.value, args.unit, args.form, args.u)

(* The body of a subclass __init__ (Cf, MySource) after super().__init__():  *)
(* one "self.<attr> = Magnitude(...)" per declared attribute, from the i-th  *)
(* on; the first exception ends the construction.                            *)
RECURSIVE SubclassAssignments(_, _, _, _)
RECURSIVE SubclassAssigned(_, _, _, _)

SubclassAssign(i, dict, h, args, made) ==
    IF made.err # Ok THEN [err |-> made.err, dict |-> dict, h |-> h]
    ELSE SubclassAssigned(i, Append(h, made.m), args,
                          setattr(dict, Append(h, made.m), DeclaredAttributes[i],
                                  Ref(Len(h) + 1)))

SubclassAssigned(i, h, args, set) ==
    IF set.err # Ok THEN [err |-> set.err, dict |-> set.dict, h |-> h]
    ELSE SubclassAssignments(i + 1, set.dict, h, args)

SubclassAssignments(i, dict, h, args) ==
    IF i > Len(DeclaredAttributes) THEN [err |-> Ok, dict |-> dict, h |-> h]
    ELSE SubclassAssign(i, dict, h, args, New(args[DeclaredAttributes[i]]))

(* Cf.__init__ and the subclasses written after it: name, calibration date,  *)
(* then the seven Magnitudes.                                                *)
SubclassInit(h, name, date, args) ==
    SubclassAssignments(
        1,
        setattr(setattr(SourceInit("Source"), h, "name", Str(name)).dict,
                h, "calibration_date", date).dict,
        h, args)

----------------------------------------------------------------------------
(* Derived quantities.  A result is [err, m]: the exception raised, or Ok    *)
(* and the Magnitude.                                                        *)

(* _decay_factor_value: exp(-log(2) * t / t12). *)
decay_factor_value(t, t12) == NumExpNegLn2(RatDiv(t.q, t12.q))

(* _decay_factor_uncertainty:                                                *)
(* sqrt((log(2) * t / t12) ** 2 * (ur_t ** 2 + ur_t12 ** 2)).                *)
decay_factor_uncertainty(t, t12, ur_t, ur_t12) ==
    NumLn2Root(RatDiv(t.q, t12.q), RatAdd(RatSq(ur_t.q), RatSq(ur_t12.q)))

(* Magnitude(value=t, unit='d', uncertainty=time_uncertainty_days) *)
decay_time_of(e) ==
    IF e.err # Ok THEN Fail(e.err)
    ELSE MagnitudeInit(NumInt(e.t), "d", "uncertainty", time_uncertainty_days)

decay_time(dict, h, date) == decay_time_of(ElapsedTime(dict["calibration_date"], date))

(* The copy of the half-life left in years. *)
copy_in_years(half_life) == half_life

(* t12 = copy(self.half_life); t12.value = t12.value * conversion_years_to_days *)
copy_in_days(half_life) ==
    [half_life EXCEPT !.value = NumMul(half_life.value, conversion_years_to_days)]

decay_factor_of(t12, t) ==
    IF t.err # Ok THEN t
    ELSE IF IsZero(t12.value) THEN Fail(ZeroDivisionError)
    ELSE MagnitudeInit(decay_factor_value(t.m.value, t12.value), "ND",
                       "relative_uncertainty",
                       decay_factor_uncertainty(t.m.value, t12.value,
                                                t.m.relative_uncertainty,
                                                t12.relative_uncertainty))

decay_factor(dict, h, date) ==
    IF ~IsRef(dict["half_life"]) THEN Fail(AttributeError)
    ELSE decay_factor_of(copy_in_days(h[dict["half_life"].id]), decay_time(dict, h, date))

(* The result of an operator chain with its unit overwritten. *)
WithUnit(r, unit) == IF r.err # Ok THEN r ELSE Done([r.m EXCEPT !.unit = unit])

(* self.calibration_strength * self.decay_factor(date=date) *)
strength_of(b0, h, f) ==
    IF f.err # Ok THEN f
    ELSE IF ~IsRef(b0) THEN Fail(TypeError)
    ELSE MagnitudeMul(h[b0.id], f.m)

(* A method result [err, fresh, m, obj]: a new Magnitude m (fresh), or an    *)
(* object that existed before the call (obj).                                *)
Fresh(r) == [err |-> r.err, fresh |-> r.err = Ok, m |-> r.m, obj |-> None]

Stored(obj) == [err |-> Ok, fresh |-> FALSE, m |-> NoMag, obj |-> obj]

(* strength without the shortcut at the calibration date. *)
strength_always_decayed(dict, h, date) ==
    Fresh(WithUnit(strength_of(dict["calibration_strength"], h,
                               decay_factor(dict, h, date)), "1/s"))

strength(dict, h, date) ==
    IF date = dict["calibration_date"]
    THEN Stored(dict["calibration_strength"])
    ELSE Fresh(WithUnit(strength_of(dict["calibration_strength"], h,
                                    decay_factor(dict, h, date)), "1/s"))

(* r * b where r is the result of the operations to the left. *)
ThenMul(r, b) == IF r.err # Ok THEN r ELSE MagnitudeMul(r.m, b)

(* r / b where r is the result of the operations to the left. *)
ThenDiv(r, b) == IF r.err # Ok THEN r ELSE MagnitudeDiv(r.m, b)

Pi == MagnitudeInit(NumPi, "ND", "uncertainty", Zero).m

Four == MagnitudeInit(NumInt(4), "ND", "uncertainty", Zero).m

(* b * fi / _4 / _pi / distance / distance *)
fluence_rate_chain(b, fi, l) ==
    ThenDiv(ThenDiv(ThenDiv(ThenDiv(MagnitudeMul(b, fi), Four), Pi), l), l)

fluence_rate_of(b, fi, distance, h) ==
    IF b.err # Ok THEN Fail(b.err)
    ELSE IF ~b.fresh /\ ~IsRef(b.obj) THEN Fail(TypeError)
    ELSE IF ~IsRef(fi) \/ ~IsRef(distance) THEN Fail(TypeError)
    ELSE WithUnit(fluence_rate_chain(IF b.fresh THEN b.m ELSE h[b.obj.id],
                                     h[fi.id], h[distance.id]),
                  "1/cm²s")

fluence_rate(dict, h, date, distance) ==
    fluence_rate_of(strength(dict, h, date), dict["anisotropy_factor"], distance, h)

(* The conversion constant with an uncertainty of its own. *)
conversion_with_uncertainty ==
    MagnitudeInit(NumFrac(36, 10000), "uSv·s/pSv/h", "uncertainty", NumFrac(1, 10000)).m

(* conversion_psv_s_to_usv_h = Magnitude(value=0.0036, unit='uSv·s/pSv/h',   *)
(*                                       uncertainty=0)                      *)
conversion_psv_s_to_usv_h ==
    MagnitudeInit(NumFrac(36, 10000), "uSv·s/pSv/h", "uncertainty", Zero).m

(* h = hf * f * conversion_psv_s_to_usv_h; h.unit = 'uSv/h' *)
ambient_dose_equivalent_rate_of(hf, f, h) ==
    IF f.err # Ok THEN f
    ELSE IF ~IsRef(hf) THEN Fail(TypeError)
    ELSE WithUnit(ThenMul(MagnitudeMul(h[hf.id], f.m), conversion_psv_s_to_usv_h),
                  "uSv/h")

ambient_dose_equivalent_rate(dict, h, date, distance) ==
    ambient_dose_equivalent_rate_of(dict["fluence_to_dose_conversion_factor"],
                                    fluence_rate(dict, h, date, distance), h)

----------------------------------------------------------------------------
(* The closed forms of equations.py, on plain numbers.                       *)

psv_s_to_usv_h == NumFrac(36, 10000)

(* hf * f * psv_s_to_usv_h *)
ambient_dose_equivalent_value(f, hf) == NumMul(NumMul(hf, f), psv_s_to_usv_h)

(* sqrt(ur_hf ** 2 + ur_f ** 2) *)
ambient_dose_equivalent_relative_uncertainty(ur_hf, ur_f) == NumHypot(ur_hf, ur_f)

(* b0 * exp(-log(2) * t / t12) *)
strength_value(b0, t, t12) == NumMul(b0, NumExpNegLn2(RatDiv(t.q, t12.q)))

(* sqrt(ur_b0 ** 2 + (log(2) * t / t12) ** 2 * (ur_t ** 2 + ur_t12 ** 2)) *)
strength_relative_uncertainty(t, t12, ur_b0, ur_t, ur_t12) ==
    NumHypot(ur_b0,
             NumLn2Root(RatDiv(t.q, t12.q), RatAdd(RatSq(ur_t.q), RatSq(ur_t12.q))))

(* b * fi / 4 / pi / l ** 2 *)
fluence_rate_value(b, fi, l) ==
    NumDiv(NumDiv(NumDiv(NumMul(b, fi), NumInt(4)), NumPi), NumMul(l, l))

(* sqrt(ur_b ** 2 + ur_fi ** 2 + 4 * ur_l ** 2), on uncertainties free of    *)
(* powers of 2^(-e) and of pi: the rational parts and the ln(2)^2 parts of   *)
(* the three squares are summed apart.                                       *)
fluence_rate_relative_uncertainty(ur_b, ur_fi, ur_l) ==
    Num(R1, R0, 0,
        RatAdd(RatAdd(RatMul(RatSq(ur_b.q), ur_b.a), RatMul(RatSq(ur_fi.q), ur_fi.a)),
               RatMul(RatInt(4), RatMul(RatSq(ur_l.q), ur_l.a))),
        RatAdd(RatAdd(RatMul(RatSq(ur_b.q), ur_b.b), RatMul(RatSq(ur_fi.q), ur_fi.b)),
               RatMul(RatInt(4), RatMul(RatSq(ur_l.q), ur_l.b))))

----------------------------------------------------------------------------
(* The bounded environment: one caller holding a source, a distance and the *)
(* last result, and the arguments it passes.                                *)

MaxSteps == 2

CalibrationDate == Date(2012, 5, 20, TRUE)

(* The calibration day written both ways, the day before, the day after     *)
(* and a text that is no date.                                              *)
Dates ==
    { CalibrationDate, Date(2012, 5, 20, FALSE), Date(2012, 5, 19, TRUE),
      Date(2012, 5, 21, TRUE), Date(2012, 2, 30, TRUE) }

(* The date of the reference scenario, 2922 days after the calibration.  It *)
(* is passed to decay_time only, in a statement that formats the result and *)
(* drops it: (2922 / t12) ^ 2 leaves the integer range.                     *)
ScenarioDate == Date(2020, 5, 20, TRUE)

(* The values of a populated source, small stand-ins for the data of Cf.    *)
CfArgs ==
    [calibration_strength |-> Args(NumInt(8), "1/s", "relative_uncertainty", NumFrac(1, 4)),
     half_life |-> Args(NumInt(2), "y", "uncertainty", NumFrac(1, 2)),
     anisotropy_factor |-> Args(NumInt(1), "ND", "uncertainty", NumFrac(1, 8)),
     linear_attenuation_coefficient |->
         Args(NumFrac(1, 4), "1/cm", "relative_uncertainty", NumFrac(1, 8)),
     fluence_to_dose_conversion_factor |->
         Args(NumInt(3), "pSv·cm²", "relative_uncertainty", NumFrac(1, 8)),
     neutron_effectiveness |-> Args(NumFrac(1, 2), "ND", "uncertainty", NumFrac(1, 8)),
     total_air_scatter_component |->
         Args(NumFrac(1, 8), "1/cm", "relative_uncertainty", NumFrac(1, 8))]

DistanceArgs == Args(NumInt(2), "cm", "uncertainty", NumFrac(1, 2))

(* The attributes whose Magnitudes the caller changes in place. *)
ChangedInPlace == {"calibration_strength", "half_life"}

(* What the caller passes to Magnitude(...) when it assigns an attribute:   *)
(* a valid quantity; for the attributes it also changes in place a negative *)
(* value without and with uncertainty and a unit that is not the            *)
(* attribute's; for the calibration strength also a negative relative       *)
(* uncertainty.                                                             *)
ArgsFor(attr) ==
    { Args(NumInt(2), standard_units[attr], "uncertainty", One) }
    \cup IF attr \in ChangedInPlace
         THEN { Args(NumInt(-2), standard_units[attr], "uncertainty", Zero),
                Args(NumInt(-2), standard_units[attr], "uncertainty", One),
                Args(NumInt(2), "s", "uncertainty", One) }
         ELSE {}
    \cup IF attr = "calibration_strength"
         THEN { Args(NumInt(2), standard_units[attr], "relative_uncertainty", NumFrac(-1, 2)),
                Args(NumInt(-2), "s", "uncertainty", Zero) }
         ELSE {}

AssignArgs == [attr \in Range(DeclaredAttributes) |-> ArgsFor(attr)]

(* What the caller writes into a field of a Magnitude it can reach. *)
FieldValues ==
    [value |-> {NumInt(-2), NumInt(4)},
     unit |-> {"s"},
     uncertainty |-> {NumInt(-1)},
     relative_uncertainty |-> {NumFrac(-1, 2)}]

(* What the caller assigns to name and calibration_date, besides a          *)
(* Magnitude it holds.                                                       *)
MetaValues ==
    [name |-> {Str("241-Am/Be")},
     calibration_date |-> {None, Date(2012, 5, 21, TRUE)}]

VARIABLES
    objs,     \* source variable of the caller -> the __dict__ of its Source
    heap,     \* the Magnitude objects, by reference
    caller,   \* the caller's other variables: distance, result
    last,     \* the statement executed last and how it ended
    steps,    \* statements executed
    keys      \* source variable -> the keys of its __dict__ in insertion order

vars == << objs, heap, caller, last, steps, keys >>

(* A statement of the caller: the operation, the source variable and the    *)
(* attribute it names, its argument (the date of a method call, the         *)
(* arguments of Magnitude(...) in an assignment), the exception it raised   *)
(* (or Ok), whether it made a new Magnitude, and the object it assigned,    *)
(* changed or received, with the fields of that object.                     *)
Statement(op, src, attr, arg, err, made, obj, m) ==
    [op |-> op, src |-> src, attr |-> attr, arg |-> arg, err |-> err,
     made |-> made, obj |-> obj, m |-> m]

(* The variable the caller's statements work on; the variable other only    *)
(* receives the Magnitudes of its attributes.                                *)
Exercised == {"source"}

(* A name Source.__init__ does not declare, which the caller assigns to. *)
Undeclared == {"activity"}

(* The Magnitudes the caller changes in place: through a source, or its own. *)
Reachable ==
    UNION { { objs[s][a].id : a \in {x \in ChangedInPlace : IsRef(objs[s][x])} } :
            s \in DOMAIN objs }
    \cup { caller[v].id : v \in {x \in DOMAIN caller : IsRef(caller[x])} }

Built(class, h, args) ==
    IF class = "Source" THEN [err |-> Ok, dict |-> SourceInit("Source"), h |-> h]
    ELSE SubclassInit(h, "252-Cf", CalibrationDate, args)

InitWith(built, l) ==
    /\ built.err = Ok
    /\ l.err = Ok
    /\ objs = [s \in {"source", "other"} |->
                  IF s = "source" THEN built.dict ELSE SourceInit("Source")]
    /\ keys = [s \in {"source", "other"} |-> DeclaredKeys]
    /\ heap = Append(built.h, l.m)
    /\ caller = [distance |-> Ref(Len(built.h) + 1), result |-> None]
    /\ last = Statement("init", "source", "", None, Ok, FALSE, None, NoMag)
    /\ steps = 0

(* The caller starts with a generic Source() or a populated subclass         *)
(* instance in the variable source, a second generic Source() in the         *)
(* variable other, and a distance.                                           *)
Init == \E class \in {"Source", "Cf"} : InitWith(Built(class, << >>, CfArgs), New(DistanceArgs))

(* The first Magnitude a constructor makes: none in Source.__init__. *)
FirstMade(class, args) ==
    IF class = "Source" THEN Fail("no Magnitude") ELSE New(args["calibration_strength"])

Constructed(s, arg, made, built) ==
    /\ objs' = IF built.err = Ok THEN [objs EXCEPT ![s] = built.dict] ELSE objs
    /\ keys' = IF built.err = Ok THEN [keys EXCEPT ![s] = DeclaredKeys] ELSE keys
    /\ heap' = IF built.err = Ok THEN built.h ELSE heap
    /\ last' = Statement("construct", s, "calibration_strength", arg, built.err,
                         made.err = Ok, IF built.err = Ok THEN built.dict["calibration_strength"] ELSE None,
                         made.m)
    /\ steps' = steps + 1
    /\ UNCHANGED caller

(* source = Source()  or  source = MySource(): the variable is rebound when  *)
(* the constructor returns, and keeps its instance when it raises.           *)
Construct(s, class, args) ==
    /\ steps < MaxSteps
    /\ Constructed(s, IF class = "Source" THEN None ELSE args["calibration_strength"],
                   FirstMade(class, args), Built(class, heap, args))

Assigned(s, attr, args, made, set) ==
    /\ IF made.err # Ok
       THEN /\ last' = Statement("setattr", s, attr, args, made.err, FALSE, None, NoMag)
            /\ UNCHANGED << objs, heap, keys >>
       ELSE /\ objs' = [objs EXCEPT ![s] = set.dict]
            /\ keys' = [keys EXCEPT ![s] = Inserted(@, attr)]
            /\ heap' = Append(heap, made.m)
            /\ last' = Statement("setattr", s, attr, args, set.err, TRUE, Ref(Len(heap) + 1), made.m)
    /\ steps' = steps + 1
    /\ UNCHANGED caller

AssignMade(s, attr, args, made) ==
    Assigned(s, attr, args, made,
             setattr(objs[s], Append(heap, made.m), attr, Ref(Len(heap) + 1)))

(* source.<attr> = Magnitude(...) *)
Assign(s, attr, args) ==
    /\ steps < MaxSteps
    /\ AssignMade(s, attr, args, New(args))

MetaAssigned(s, name, value, set) ==
    /\ objs' = [objs EXCEPT ![s] = set.dict]
    /\ keys' = [keys EXCEPT ![s] = Inserted(@, name)]
    /\ last' = Statement("setmeta", s, name, None, set.err, FALSE, value, NoMag)
    /\ steps' = steps + 1
    /\ UNCHANGED << heap, caller >>

(* source.name = ...  and  source.calibration_date = ... *)
AssignMeta(s, name, value) ==
    /\ steps < MaxSteps
    /\ MetaAssigned(s, name, value, setattr(objs[s], heap, name, value))

ObjectAssigned(s, attr, value, set) ==
    /\ objs' = [objs EXCEPT ![s] = set.dict]
    /\ keys' = [keys EXCEPT ![s] = Inserted(@, attr)]
    /\ last' = Statement("setattr", s, attr, None, set.err, FALSE, value,
                         IF IsRef(value) THEN heap[value.id] ELSE NoMag)
    /\ steps' = steps + 1
    /\ UNCHANGED << heap, caller >>

(* source.<attr> = distance  and  other.<attr> = source.<attr>: a Magnitude  *)
(* that exists already.                                                      *)
AssignObject(s, attr, value) ==
    /\ steps < MaxSteps
    /\ IsRef(value)
    /\ ObjectAssigned(s, attr, value, setattr(objs[s], heap, attr, value))

(* source.<attr> = None *)
AssignNone(s, attr) ==
    /\ steps < MaxSteps
    /\ ObjectAssigned(s, attr, None, setattr(objs[s], heap, attr, None))

(* magnitude.<field> = v on a Magnitude the caller reaches, such as          *)
(* source.calibration_strength.value = v: a plain attribute write.           *)
Mutate(r, field, v) ==
    /\ steps < MaxSteps
    /\ heap' = [heap EXCEPT ![r] = [@ EXCEPT ![field] = v]]
    /\ last' = Statement("mutate", "", field, None, Ok, FALSE, Ref(r),
                         [heap[r] EXCEPT ![field] = v])
    /\ steps' = steps + 1
    /\ UNCHANGED << objs, caller, keys >>

(* A return after a call that converted the stored half-life itself, as     *)
(* t12 = self.half_life without the copy would.                              *)
ReturnWithoutCopy(op, s, date, r) ==
    /\ last' = Statement(op, s, "", date, r.err, r.err = Ok,
                         IF r.err = Ok THEN Ref(Len(heap) + 1) ELSE None, r.m)
    /\ heap' = IF r.err # Ok THEN heap
               ELSE IF IsRef(objs[s]["half_life"])
               THEN Append([heap EXCEPT ![objs[s]["half_life"].id] = copy_in_days(@)], r.m)
               ELSE Append(heap, r.m)
    /\ caller' = IF r.err = Ok THEN [caller EXCEPT !.result = Ref(Len(heap) + 1)] ELSE caller
    /\ steps' = steps + 1
    /\ UNCHANGED << objs, keys >>

(* result = source.<method>(...): a new Magnitude comes back, or the call    *)
(* raises and result keeps its value.                                        *)
Return(op, s, date, r) ==
    /\ last' = Statement(op, s, "", date, r.err, r.err = Ok,
                         IF r.err = Ok THEN Ref(Len(heap) + 1) ELSE None, r.m)
    /\ heap' = IF r.err = Ok THEN Append(heap, r.m) ELSE heap
    /\ caller' = IF r.err = Ok THEN [caller EXCEPT !.result = Ref(Len(heap) + 1)] ELSE caller
    /\ steps' = steps + 1
    /\ UNCHANGED << objs, keys >>

(* ... or an object that existed before the call comes back. *)
ReturnStored(op, s, date, obj) ==
    /\ last' = Statement(op, s, "", date, Ok, FALSE, obj,
                         IF IsRef(obj) THEN heap[obj.id] ELSE NoMag)
    /\ caller' = [caller EXCEPT !.result = obj]
    /\ steps' = steps + 1
    /\ UNCHANGED << objs, heap, keys >>

(* str(source.<method>(...)): the result is used and dropped. *)
Dropped(op, s, date, r) ==
    /\ last' = Statement(op, s, "", date, r.err, r.err = Ok, None, r.m)
    /\ steps' = steps + 1
    /\ UNCHANGED << objs, heap, caller, keys >>

ReturnEither(op, s, date, b) ==
    IF b.fresh \/ b.err # Ok THEN Return(op, s, date, b) ELSE ReturnStored(op, s, date, b.obj)

DecayTime(s, date) ==
    /\ steps < MaxSteps
    /\ Return("decay_time", s, date, decay_time(objs[s], heap, date))

DecayTimeFormatted(s, date) ==
    /\ steps < MaxSteps
    /\ Dropped("decay_time", s, date, decay_time(objs[s], heap, date))

DecayFactor(s, date) ==
    /\ steps < MaxSteps
    /\ Return("decay_factor", s, date, decay_factor(objs[s], heap, date))

Strength(s, date) ==
    /\ steps < MaxSteps
    /\ ReturnEither("strength", s, date, strength(objs[s], heap, date))

FluenceRate(s, date) ==
    /\ steps < MaxSteps
    /\ Return("fluence_rate", s, date, fluence_rate(objs[s], heap, date, caller.distance))

AmbientDoseEquivalentRate(s, date) ==
    /\ steps < MaxSteps
    /\ Return("ambient_dose_equivalent_rate", s, date,
              ambient_dose_equivalent_rate(objs[s], heap, date, caller.distance))

(* for attr, magnitude in source.numeric_attributes(): print(attr, magnitude) *)
Enumerate(s) ==
    /\ steps < MaxSteps
    /\ last' = Statement("enumerate", s, "", numeric_attributes_keys(keys[s]),
                         Iterated(numeric_attributes_keys(keys[s])), FALSE, None, NoMag)
    /\ steps' = steps + 1
    /\ UNCHANGED << objs, heap, caller, keys >>

(* source.numeric_attributes()[attr] = value: the entry of the dictionary    *)
(* that was returned is replaced; __dict__ is another dictionary.            *)
ViewReplace(s, attr, value) ==
    /\ steps < MaxSteps
    /\ attr \in DOMAIN numeric_attributes(objs[s])
    /\ last' = Statement("view_replace", s, attr,
                         [numeric_attributes(objs[s]) EXCEPT ![attr] = value],
                         Ok, FALSE, value, IF IsRef(value) THEN heap[value.id] ELSE NoMag)
    /\ steps' = steps + 1
    /\ UNCHANGED << objs, heap, caller, keys >>

(* source.numeric_attributes()[attr].<field> = v: the entry is the object    *)
(* the source holds.                                                         *)
ViewMutate(s, attr, field, v) ==
    /\ steps < MaxSteps
    /\ attr \in DOMAIN numeric_attributes(objs[s])
    /\ IsRef(numeric_attributes(objs[s])[attr])
    /\ heap' = [heap EXCEPT ![numeric_attributes(objs[s])[attr].id] = [@ EXCEPT ![field] = v]]
    /\ last' = Statement("view_mutate", s, attr, field, Ok, FALSE,
                         numeric_attributes(objs[s])[attr],
                         [heap[numeric_attributes(objs[s])[attr].id] EXCEPT ![field] = v])
    /\ steps' = steps + 1
    /\ UNCHANGED << objs, caller, keys >>

Next ==
    \/ \E s \in Exercised : Construct(s, "Source", CfArgs)
    \/ \E s \in Exercised, a \in AssignArgs["calibration_strength"] :
          Construct(s, "MySource", [CfArgs EXCEPT !.calibration_strength = a])
    \/ \E s \in Exercised, attr \in Range(DeclaredAttributes) :
          \E a \in AssignArgs[attr] : Assign(s, attr, a)
    \/ \E s \in Exercised, attr \in Range(DeclaredAttributes) \cup Undeclared :
          AssignObject(s, attr, caller.distance)
    \/ \E s \in Exercised, attr \in Range(DeclaredAttributes) : AssignNone(s, attr)
    \/ \E s \in Exercised, name \in DOMAIN MetaValues :
          \E v \in MetaValues[name] \cup {caller.distance} : AssignMeta(s, name, v)
    \/ \E r \in Reachable, field \in DOMAIN FieldValues :
          \E v \in FieldValues[field] : Mutate(r, field, v)
    \/ \E s \in Exercised, date \in Dates : DecayTime(s, date)
    \/ \E s \in Exercised : DecayTimeFormatted(s, ScenarioDate)
    \/ \E s \in Exercised, date \in Dates : DecayFactor(s, date)
    \/ \E s \in Exercised, date \in Dates : Strength(s, date)
    \/ \E s \in Exercised, date \in Dates : FluenceRate(s, date)
    \/ \E s \in Exercised, date \in Dates : AmbientDoseEquivalentRate(s, date)
    \/ \E s \in Exercised : Enumerate(s)
    \/ \E s \in Exercised, attr \in ChangedInPlace :
          ViewReplace(s, attr, caller.distance)
    \/ \E s \in Exercised, field \in DOMAIN FieldValues :
          \E v \in FieldValues[field] : ViewMutate(s, "calibration_strength", field, v)
    \/ \E s \in Exercised, t \in DOMAIN objs \ Exercised, attr \in ChangedInPlace :
          AssignObject(t, attr, objs[s][attr])

Spec == Init /\ [][Next]_vars

----------------------------------------------------------------------------
(* Properties.  Each is stated on the state a statement leaves: `last` is    *)
(* the statement, objs and heap what the caller can read after it.           *)

Attributes == Range(DeclaredAttributes)

(* A Magnitude that check_consistency has nothing to say against. *)
Consistent(m, attr) ==
    /\ ~IsNeg(m.value)
    /\ ~IsNeg(m.uncertainty)
    /\ ~IsNeg(m.relative_uncertainty)
    /\ m.unit = standard_units[attr]

(* The Magnitude stored in an attribute that is set. *)
Held(s, attr) == heap[objs[s][attr].id]

(* A populated source in good order: a calibration date that parses, every   *)
(* attribute a consistent Magnitude, a half-life that is not zero.           *)
Valid(s) ==
    /\ Parses(objs[s]["calibration_date"])
    /\ \A attr \in Attributes :
          IsRef(objs[s][attr]) /\ Consistent(Held(s, attr), attr)
    /\ ~IsZero(Held(s, "half_life").value)

(* The last statement stored a Magnitude in a declared attribute: an         *)
(* assignment, or the first assignment of a subclass constructor.            *)
Assigns == last.op \in {"setattr", "construct"} /\ last.m # NoMag /\ last.attr \in Attributes

(* The whole days from the calibration date of source s to a date. *)
DaysTo(s, date) ==
    Ordinal(date.y, date.m, date.d)
    - Ordinal(objs[s]["calibration_date"].y, objs[s]["calibration_date"].m,
              objs[s]["calibration_date"].d)

(* The half-life of source s in days. *)
HalfLifeDays(s) == NumMul(Held(s, "half_life").value, conversion_years_to_days)

(* C1: after any sequence of operations, every Magnitude attribute that is   *)
(* set carries its canonical unit and has value, uncertainty and relative    *)
(* uncertainty >= 0.                                                         *)
AttributesConsistent ==
    \A s \in DOMAIN objs : \A attr \in Attributes :
        IsRef(objs[s][attr]) => Consistent(Held(s, attr), attr)

InPlaceChangeValidated ==
    (/\ last.op = "mutate"
     /\ \E s \in DOMAIN objs : objs[s]["calibration_strength"] = last.obj
     /\ ~Consistent(last.m, "calibration_strength"))
    => last.err # Ok

(* C4: assigning a Magnitude with the canonical unit and non-negative value  *)
(* and uncertainties succeeds, and the attribute then reads back as that     *)
(* Magnitude.                                                                *)
ValidAssignmentReadsBack ==
    (Assigns /\ Consistent(last.m, last.attr)) =>
        /\ last.err = Ok
        /\ IsRef(objs[last.src][last.attr])
        /\ objs[last.src][last.attr] = last.obj
        /\ Held(last.src, last.attr) = last.m

(* C4, its case: a new, valid half-life was assigned and accepted. *)
ValidAssignmentAccepted ==
    /\ last.op = "setattr"
    /\ last.attr = "half_life"
    /\ last.made
    /\ Consistent(last.m, "half_life")
    /\ last.err = Ok
    /\ Held(last.src, "half_life") = last.m

(* C5: strength(date) with date equal to calibration_date returns            *)
(* calibration_strength itself: nothing is computed, nothing new is made.    *)
StrengthAtCalibrationDate ==
    (last.op = "strength" /\ last.arg = objs[last.src]["calibration_date"]) =>
        /\ last.err = Ok
        /\ ~last.made
        /\ caller.result = objs[last.src]["calibration_strength"]
        /\ IsRef(caller.result) => last.m = Held(last.src, "calibration_strength")

(* C5, its case: strength at the calibration date of a populated source. *)
StrengthPassedThrough ==
    /\ last.op = "strength"
    /\ last.arg = objs[last.src]["calibration_date"]
    /\ IsRef(caller.result)
    /\ caller.result = objs[last.src]["calibration_strength"]

(* C6: decay_factor(date) with date equal to calibration_date returns a      *)
(* Magnitude of value exactly 1 and uncertainty 0.                           *)
DecayFactorAtCalibrationDate ==
    (/\ last.op = "decay_factor"
     /\ Valid(last.src)
     /\ last.arg = objs[last.src]["calibration_date"])
    => /\ last.err = Ok
       /\ last.m.value = One
       /\ IsZero(last.m.uncertainty)

(* C7: assigning a Magnitude(...) of negative value to calibration_strength, *)
(* in a subclass constructor or on a source, fails with the message          *)
(* 'Source calibration strength must be positive.'.                          *)
NegativeStrengthMessage ==
    (/\ last.op \in {"setattr", "construct"}
     /\ last.attr = "calibration_strength"
     /\ last.arg # None
     /\ IsNeg(last.arg.value))
    => last.err = "Source calibration strength must be positive."

(* C8: decay_time(date) returns, for every valid date, the whole days from   *)
(* calibration_date to date with unit 'd' and uncertainty 1 day; from        *)
(* 2012/05/20 to 2020/05/20 that is 2922 d.                                  *)
DecayTimeWholeDays ==
    (/\ last.op = "decay_time"
     /\ Parses(objs[last.src]["calibration_date"])
     /\ Parses(last.arg))
    => /\ last.err = Ok
       /\ last.m.value = NumInt(DaysTo(last.src, last.arg))
       /\ last.m.unit = "d"
       /\ last.m.uncertainty = One
       /\ (objs[last.src]["calibration_date"] = CalibrationDate /\ last.arg = ScenarioDate)
          => last.m.value = NumInt(2922)

(* C9: for a date other than calibration_date, strength(date) returns a new  *)
(* Magnitude of value B0 * f, unit '1/s' and the relative uncertainty of     *)
(* the closed form strength_relative_uncertainty.                            *)
StrengthDecayed ==
    (/\ last.op = "strength"
     /\ Valid(last.src)
     /\ Parses(last.arg)
     /\ last.arg # objs[last.src]["calibration_date"])
    => /\ last.err = Ok
       /\ last.made
       /\ last.m.unit = "1/s"
       /\ last.m.value =
             strength_value(Held(last.src, "calibration_strength").value,
                            NumInt(DaysTo(last.src, last.arg)), HalfLifeDays(last.src))
       /\ last.m.relative_uncertainty =
             strength_relative_uncertainty(
                 NumInt(DaysTo(last.src, last.arg)), HalfLifeDays(last.src),
                 Held(last.src, "calibration_strength").relative_uncertainty,
                 NumDiv(time_uncertainty_days, NumInt(DaysTo(last.src, last.arg))),
                 Held(last.src, "half_life").relative_uncertainty)

(* The strength the closed forms give for source s on a date. *)
StrengthOn(s, date) ==
    IF date = objs[s]["calibration_date"]
    THEN Held(s, "calibration_strength")
    ELSE Mag(strength_value(Held(s, "calibration_strength").value,
                            NumInt(DaysTo(s, date)), HalfLifeDays(s)),
             "1/s", Zero,
             strength_relative_uncertainty(
                 NumInt(DaysTo(s, date)), HalfLifeDays(s),
                 Held(s, "calibration_strength").relative_uncertainty,
                 NumDiv(time_uncertainty_days, NumInt(DaysTo(s, date))),
                 Held(s, "half_life").relative_uncertainty))

(* The caller's distance is a length that can be divided by. *)
ValidDistance ==
    /\ IsRef(caller.distance)
    /\ ~IsNeg(heap[caller.distance.id].value)
    /\ ~IsZero(heap[caller.distance.id].value)
    /\ ~IsNeg(heap[caller.distance.id].relative_uncertainty)

(* C10: fluence_rate(date, distance) returns, for every date and distance, a *)
(* Magnitude of value B * f_I / (4 * pi * l^2) and unit '1/cm²s', and the    *)
(* constants 4 and pi add nothing to its uncertainty.                        *)
FluenceRateValue ==
    (/\ last.op = "fluence_rate"
     /\ Valid(last.src)
     /\ ValidDistance
     /\ Parses(last.arg))
    => /\ last.err = Ok
       /\ last.m.unit = "1/cm²s"
       /\ last.m.value =
             fluence_rate_value(StrengthOn(last.src, last.arg).value,
                                Held(last.src, "anisotropy_factor").value,
                                heap[caller.distance.id].value)
       /\ last.m.relative_uncertainty =
             NumHypot(NumHypot(NumHypot(
                          StrengthOn(last.src, last.arg).relative_uncertainty,
                          Held(last.src, "anisotropy_factor").relative_uncertainty),
                      heap[caller.distance.id].relative_uncertainty),
                 heap[caller.distance.id].relative_uncertainty)

(* C11: ambient_dose_equivalent_rate(date, distance) returns, for the        *)
(* fluence rate phi of that date and distance, a Magnitude of value          *)
(* h_Phi * phi * 0.0036, unit 'uSv/h' and relative uncertainty               *)
(* sqrt(ur(phi)^2 + ur(h_Phi)^2): the constant 0.0036 adds no uncertainty.   *)
AmbientDoseFromFluence ==
    (/\ last.op = "ambient_dose_equivalent_rate"
     /\ Valid(last.src)
     /\ ValidDistance
     /\ fluence_rate(objs[last.src], heap, last.arg, caller.distance).err = Ok)
    => /\ last.err = Ok
       /\ last.m.unit = "uSv/h"
       /\ last.m.value =
             ambient_dose_equivalent_value(
                 fluence_rate(objs[last.src], heap, last.arg, caller.distance).m.value,
                 Held(last.src, "fluence_to_dose_conversion_factor").value)
       /\ last.m.relative_uncertainty =
             ambient_dose_equivalent_relative_uncertainty(
                 Held(last.src, "fluence_to_dose_conversion_factor").relative_uncertainty,
                 fluence_rate(objs[last.src], heap, last.arg,
                              caller.distance).m.relative_uncertainty)

(* C11, its case: the dose rate of a populated source a day after its        *)
(* calibration.                                                              *)
AmbientDoseReturned ==
    /\ last.op = "ambient_dose_equivalent_rate"
    /\ Valid(last.src)
    /\ ValidDistance
    /\ Parses(last.arg)
    /\ DaysTo(last.src, last.arg) > 0
    /\ last.err = Ok
    /\ ~IsZero(last.m.relative_uncertainty)

(* C12: the relative uncertainty of fluence_rate(date, distance) is          *)
(* sqrt(ur(B)^2 + ur(f_I)^2 + ur(l)^2), the relative uncertainty of the      *)
(* distance counted once.                                                    *)
FluenceRateDistanceOnce ==
    (/\ last.op = "fluence_rate"
     /\ Valid(last.src)
     /\ ValidDistance
     /\ last.err = Ok)
    => last.m.relative_uncertainty =
          NumHypot(NumHypot(StrengthOn(last.src, last.arg).relative_uncertainty,
                            Held(last.src, "anisotropy_factor").relative_uncertainty),
                   heap[caller.distance.id].relative_uncertainty)


(* C13: numeric_attributes() enumerates the eight Quantity-valued fields of  *)
(* the Source as (name, Quantity) pairs: iterating it as                     *)
(* "for attr, magnitude in ..." goes through, it yields eight items, none of *)
(* them name or calibration_date, and the declared fields come in the order  *)
(* Source.__init__ declares them.                                            *)
NumericAttributesEnumerated ==
    last.op = "enumerate" =>
        /\ last.err = Ok
        /\ Len(last.arg) = 8
        /\ \A i \in DOMAIN last.arg : last.arg[i] \notin {"name", "calibration_date"}
        /\ SelectSeq(last.arg, LAMBDA attr : attr \in Range(DeclaredAttributes))
              = DeclaredAttributes


(* Every attribute numeric_attributes() lists passes check_consistency. *)
Accepted(s) ==
    \A attr \in DOMAIN numeric_attributes(objs[s]) :
        check_consistency(objs[s], heap, attr) = Ok

(* C14: what numeric_attributes() returns is a read-only view: when every    *)
(* attribute of a Source passes the consistency check, replacing an entry of *)
(* the view or changing a Magnitude obtained from it leaves every attribute  *)
(* passing it.                                                               *)
ViewReadOnly ==
    [][ \A s \in DOMAIN objs :
            (last'.op \in {"view_replace", "view_mutate"} /\ last'.src = s /\ Accepted(s))
            => Accepted(s)' ]_vars


(* C15: the attribute set of a Source is fixed: after any sequence of        *)
(* assignments, accepted or failed, its attributes are exactly name,         *)
(* calibration_date and the declared Magnitude attributes.                   *)
AttributeSetFixed ==
    \A s \in DOMAIN objs : DOMAIN objs[s] = Range(DeclaredKeys)


(* C16: no Magnitude instance is ever held by two Sources: whatever is       *)
(* constructed and assigned, an object stored in an attribute of one Source  *)
(* is stored in no attribute of another, so that changing it through one     *)
(* Source changes no attribute of the other.                                 *)
NoSharedQuantity ==
    \A s \in DOMAIN objs, t \in DOMAIN objs :
        s # t =>
            \A a \in DOMAIN numeric_attributes(objs[s]),
               b \in DOMAIN numeric_attributes(objs[t]) :
                IsRef(objs[s][a]) => objs[s][a] # objs[t][b]


(* C17: for every Magnitude, one that was changed in place included, the     *)
(* two forms of the uncertainty agree: uncertainty = value *                 *)
(* relative_uncertainty.                                                     *)
UncertaintyFormsAgree ==
    \A i \in DOMAIN heap :
        heap[i].uncertainty = NumMul(heap[i].value, heap[i].relative_uncertainty)


(* C18: constructing a Magnitude fails exactly when its value is negative or *)
(* the uncertainty form supplied is negative, and a negative value with a    *)
(* non-negative uncertainty is refused for the value, not with the message   *)
(* about uncertainties.                                                      *)
ConstructionRefused ==
    (last.op \in {"setattr", "construct"} /\ last.arg # None) =>
        /\ ~last.made <=> (IsNeg(last.arg.value) \/ IsNeg(last.arg.u))
        /\ (IsNeg(last.arg.value) /\ ~IsNeg(last.arg.u))
           => last.err # UncertaintiesMustBePositive


----------------------------------------------------------------------------
(* equations.py: percentage_uncertainty and absolute_uncertainty, on Python *)
(* numbers.  An int is exact; a float is a binary64: sign s, the 53 bits of *)
(* its significand (most significant first, the first one 1) and the        *)
(* exponent e of its last bit, so that the float is s * bits * 2^e.  Zero   *)
(* has no bits; 0.0 and -0.0, which == does not tell apart, are one value.  *)

PyInt(n) == [t |-> "int", n |-> n]

PyFloat(s, bits, e) == [t |-> "float", s |-> s, bits |-> bits, e |-> e]

FloatZero == PyFloat(0, << >>, 0)

(* The bits of the significand of a binary64. *)
Precision == 53

(* The bits a dividend is extended by, so that the quotient by an int below *)
(* 2^10 has more bits than the significand and the remainder is sticky.     *)
GuardBits == 64

Sign(n) == IF n > 0 THEN 1 ELSE IF n < 0 THEN -1 ELSE 0

Zeros(n) == [i \in 1..n |-> 0]

(* The binary digits of a natural number, most significant first. *)
RECURSIVE Bits(_)
Bits(n) == IF n = 0 THEN << >> ELSE Append(Bits(n \div 2), n % 2)

(* The digits without their leading zeros. *)
Stripped(bits) ==
    IF \A i \in DOMAIN bits : bits[i] = 0 THEN << >>
    ELSE SubSeq(bits, CHOOSE i \in DOMAIN bits :
                          bits[i] = 1 /\ \A j \in 1..(i - 1) : bits[j] = 0,
                Len(bits))

(* digits * c for a small natural c: the digits lo..hi with the carry that  *)
(* comes in from the right, as the digits of the product at those places    *)
(* and the carry that goes out to the left.  The right half is done first:  *)
(* its carry, which is never above c, is known when the left half starts.   *)
RECURSIVE TimesIn(_, _, _, _, _)
RECURSIVE TimesLeft(_, _, _, _, _)

TimesJoined(left, right) == [d |-> left.d \o right.d, k |-> left.k]

TimesLeft(bits, c, lo, mid, right) ==
    TimesJoined(TimesIn(bits, c, lo, mid, right.k), right)

TimesIn(bits, c, lo, hi, carry) ==
    IF carry > c THEN Unsupported
    ELSE IF lo = hi
    THEN [d |-> << (bits[lo] * c + carry) % 2 >>, k |-> (bits[lo] * c + carry) \div 2]
    ELSE TimesLeft(bits, c, lo, (lo + hi) \div 2,
                   TimesIn(bits, c, (lo + hi) \div 2 + 1, hi, carry))

TimesDigits(product) == Bits(product.k) \o product.d

Times(bits, c) ==
    IF bits = << >> THEN << >> ELSE TimesDigits(TimesIn(bits, c, 1, Len(bits), 0))

(* digits / c for a small natural c, by long division: the digits lo..hi    *)
(* with the remainder that comes in from the left, as the quotient digits   *)
(* at those places and the remainder that goes out to the right.            *)
RECURSIVE OverIn(_, _, _, _, _)
RECURSIVE OverRight(_, _, _, _, _)

OverJoined(left, right) == [q |-> left.q \o right.q, r |-> right.r]

OverRight(bits, c, mid, hi, left) ==
    OverJoined(left, OverIn(bits, c, mid + 1, hi, left.r))

OverIn(bits, c, lo, hi, rem) ==
    IF lo = hi
    THEN [q |-> << (2 * rem + bits[lo]) \div c >>, r |-> (2 * rem + bits[lo]) % c]
    ELSE OverRight(bits, c, (lo + hi) \div 2, hi,
                   OverIn(bits, c, lo, (lo + hi) \div 2, rem))

Over(bits, c) == OverIn(bits, c, 1, Len(bits), 0)

(* The digits with the last 0, at place i, raised and the ones after it      *)
(* cleared.                                                                  *)
IncrementedAt(bits, i) == SubSeq(bits, 1, i - 1) \o << 1 >> \o Zeros(Len(bits) - i)

(* The significand after this one: none when every digit is 1. *)
Incremented(bits) ==
    IF \A i \in DOMAIN bits : bits[i] = 1 THEN << >>
    ELSE IncrementedAt(bits, CHOOSE i \in DOMAIN bits :
                                 bits[i] = 0 /\ \A j \in (i + 1)..Len(bits) : bits[j] = 1)

(* Round to nearest, ties to even: digits without leading zeros, worth      *)
(* s * digits * 2^e, plus something below the last digit when sticky.       *)
RoundedUp(s, keep, e) ==
    IF Incremented(keep) = << >>
    THEN PyFloat(s, << 1 >> \o Zeros(Precision - 1), e + 1)
    ELSE PyFloat(s, Incremented(keep), e)

Rounded(s, bits, e, sticky) ==
    IF bits = << >> THEN FloatZero
    ELSE IF Len(bits) <= Precision
    THEN PyFloat(s, bits \o Zeros(Precision - Len(bits)), e - (Precision - Len(bits)))
    ELSE IF /\ bits[Precision + 1] = 1
            /\ \/ sticky
               \/ \E i \in (Precision + 2)..Len(bits) : bits[i] = 1
               \/ bits[Precision] = 1
    THEN RoundedUp(s, SubSeq(bits, 1, Precision), e + Len(bits) - Precision)
    ELSE PyFloat(s, SubSeq(bits, 1, Precision), e + Len(bits) - Precision)

(* float(n) *)
FloatOf(n) == Rounded(Sign(n), Bits(Abs(n)), 0, FALSE)

ToFloat(x) == IF x.t = "int" THEN FloatOf(x.n) ELSE x

RoundedQuotient(s, qr, e) == Rounded(s, Stripped(qr.q), e, qr.r # 0)

(* x * y of Python: int * int is an int; float * int is the product rounded *)
(* once.  A product of two floats is not modelled.                          *)
PyMul(x, y) ==
    IF x.t = "int" /\ y.t = "int" THEN PyInt(x.n * y.n)
    ELSE IF x.t = "float" /\ y.t = "int"
    THEN Rounded(x.s * Sign(y.n), Stripped(Times(x.bits, Abs(y.n))), x.e, FALSE)
    ELSE IF x.t = "int" /\ y.t = "float"
    THEN Rounded(y.s * Sign(x.n), Stripped(Times(y.bits, Abs(x.n))), y.e, FALSE)
    ELSE Unsupported

(* x / y of Python for an int y that is not 0: the quotient rounded once. *)
PyDiv(x, y) ==
    IF y.t # "int" THEN Unsupported
    ELSE RoundedQuotient(ToFloat(x).s * Sign(y.n),
                         Over(ToFloat(x).bits \o Zeros(GuardBits), Abs(y.n)),
                         ToFloat(x).e - GuardBits)

(* x == y of Python between numbers. *)
PyEq(x, y) == ToFloat(x) = ToFloat(y)

(* percentage_uncertainty as a fraction of the value: without the * 100. *)
percentage_as_fraction(m, u_m) == PyDiv(u_m, m)

(* u_m / m * 100 *)
percentage_uncertainty(m, u_m) == PyMul(PyDiv(u_m, m), PyInt(100))

(* m * ur_m / 100 *)
absolute_uncertainty(m, ur_m) == PyDiv(PyMul(m, ur_m), PyInt(100))

u_t_days == PyInt(1)

(* The triple elapsed_time returns, or the exception it raises: the          *)
(* division u_m / m of percentage_uncertainty raises for a time of 0 days.   *)
Triple(err, t, u_t, ur_t) == [err |-> err, t |-> t, u_t |-> u_t, ur_t |-> ur_t]

elapsed_time_of(e) ==
    IF e.err # Ok THEN Triple(e.err, PyInt(0), PyInt(0), PyInt(0))
    ELSE IF e.t = 0 THEN Triple(ZeroDivisionError, PyInt(0), PyInt(0), PyInt(0))
    ELSE Triple(Ok, PyInt(e.t), u_t_days, percentage_uncertainty(PyInt(e.t), u_t_days))

(* elapsed_time: strptime of both dates, the days between them, u_t_days     *)
(* and percentage_uncertainty(t, u_t).                                       *)
elapsed_time(initial_date, final_date) ==
    elapsed_time_of(ElapsedTime(initial_date, final_date))

(* The calls of the two functions on a value m that is not 0: the caller    *)
(* starts with m and a number x, and each call replaces x by the result of  *)
(* one function on (m, x).  caller.xs keeps the values x has had.           *)
Values == {-3, 1, 2, 3, 5, 6, 7, 100}

Given == 0..7 \cup {10}

EquationsInit ==
    \E m \in Values, x \in Given :
        /\ objs = << >>
        /\ heap = << >>
        /\ keys = << >>
        /\ caller = [m |-> PyInt(m), xs |-> << PyInt(x) >>]
        /\ last = Statement("init", "", "", "", Ok, FALSE, None, NoMag)
        /\ steps = 0

Called(op, x) ==
    /\ steps < MaxSteps
    /\ caller' = [caller EXCEPT !.xs = Append(@, x)]
    /\ last' = Statement(op, "", "", last.op, Ok, FALSE, None, NoMag)
    /\ steps' = steps + 1
    /\ UNCHANGED << objs, heap, keys >>

(* x = percentage_uncertainty(m, x) *)
PercentageUncertainty ==
    Called("percentage_uncertainty",
           percentage_uncertainty(caller.m, caller.xs[Len(caller.xs)]))

(* x = absolute_uncertainty(m, x) *)
AbsoluteUncertainty ==
    Called("absolute_uncertainty",
           absolute_uncertainty(caller.m, caller.xs[Len(caller.xs)]))

(* The dates elapsed_time is called with: the year of its test and the      *)
(* calibration day of the example source.                                    *)
InitialDates == { Date(2012, 1, 1, TRUE), Date(2012, 5, 20, TRUE) }

FinalDates == { Date(2012, 12, 31, TRUE), Date(2012, 5, 20, TRUE), Date(2012, 1, 1, TRUE) }

(* actual = elapsed_time(initial_date=..., final_date=...) *)
ElapsedTimeCalled(initial_date, final_date) ==
    /\ steps < MaxSteps
    /\ last' = Statement("elapsed_time", "", "", last.op,
                         elapsed_time(initial_date, final_date).err, FALSE,
                         [initial_date |-> initial_date, final_date |-> final_date,
                          actual |-> elapsed_time(initial_date, final_date)],
                         NoMag)
    /\ steps' = steps + 1
    /\ UNCHANGED << objs, heap, keys, caller >>

EquationsNext ==
    \/ PercentageUncertainty
    \/ AbsoluteUncertainty
    \/ \E initial_date \in InitialDates, final_date \in FinalDates :
          ElapsedTimeCalled(initial_date, final_date)

EquationsSpec == EquationsInit /\ [][EquationsNext]_vars


(* The digits with the last 1, at place i, cleared and the zeros after it   *)
(* raised.                                                                  *)
DecrementedAt(bits, i) ==
    SubSeq(bits, 1, i - 1) \o << 0 >> \o [j \in 1..(Len(bits) - i) |-> 1]

(* The float next to x away from zero, and the one next to it towards zero. *)
Up(x) == RoundedUp(x.s, x.bits, x.e)

Down(x) ==
    IF \A i \in 2..Len(x.bits) : x.bits[i] = 0
    THEN PyFloat(x.s, [i \in 1..Precision |-> 1], x.e - 1)
    ELSE PyFloat(x.s, DecrementedAt(x.bits, CHOOSE i \in DOMAIN x.bits :
                                               /\ x.bits[i] = 1
                                               /\ \A j \in (i + 1)..Len(x.bits) :
                                                     x.bits[j] = 0),
                 x.e)

(* x is y or one of the k floats on either side of y; 0 only 0 itself. *)
RECURSIVE Within(_, _, _)
Within(x, y, k) ==
    \/ x = y
    \/ /\ k > 0
       /\ y # FloatZero
       /\ \/ Within(x, Up(y), k - 1)
          \/ Within(x, Down(y), k - 1)

(* The last two calls were f and then g: x went from Before to After. *)
Composed(f, g) == steps >= 2 /\ last.arg = f /\ last.op = g

Before == caller.xs[Len(caller.xs) - 2]

After == caller.xs[Len(caller.xs)]

(* C19: round-trip law: for every m that is not 0,                          *)
(* absolute_uncertainty(m, percentage_uncertainty(m, u)) is u and           *)
(* percentage_uncertainty(m, absolute_uncertainty(m, p)) is p, up to the    *)
(* rounding of the four float operations: at most 4 floats away.            *)
RoundTripWithinTolerance ==
    (\/ Composed("percentage_uncertainty", "absolute_uncertainty")
     \/ Composed("absolute_uncertainty", "percentage_uncertainty"))
    => Within(ToFloat(After), ToFloat(Before), 4)

(* C19, its case: a round trip comes back on the float next to the number  *)
(* it started from, not on the number.                                       *)
RoundTripRounded ==
    /\ \/ Composed("percentage_uncertainty", "absolute_uncertainty")
       \/ Composed("absolute_uncertainty", "percentage_uncertainty")
    /\ ~PyEq(After, Before)
    /\ Within(ToFloat(After), ToFloat(Before), 1)

(* C19 as stated: the round trips give back exactly the number they         *)
(* started from.                                                             *)
RoundTripExact ==
    (\/ Composed("percentage_uncertainty", "absolute_uncertainty")
     \/ Composed("absolute_uncertainty", "percentage_uncertainty"))
    => PyEq(After, Before)


(* C20: assigning name or calibration_date never runs the consistency check *)
(* and never fails, whatever the value: the statement returns and the        *)
(* attribute holds what was assigned.                                        *)
NameAndDateUnchecked ==
    last.op = "setmeta" =>
        /\ last.err = Ok
        /\ objs[last.src][last.attr] = last.obj

(* C20, its case: a value the consistency check would turn down was         *)
(* assigned to name or calibration_date, and the statement returned.         *)
NameOrDateAssignedUnchecked ==
    /\ last.op = "setmeta"
    /\ last.err = Ok
    /\ objs[last.src][last.attr] = last.obj
    /\ check_consistency(objs[last.src], heap, last.attr) # Ok


(* C21: check_consistency tests the value, then the uncertainty (absolute,  *)
(* then relative), then the unit, and reports the first violation only: a   *)
(* Magnitude that is negative and in a unit that is not the attribute's is  *)
(* reported as a negative value.                                             *)
FirstViolationReported ==
    Assigns =>
        last.err =
            IF IsNeg(last.m.value) THEN ValueMustBePositive(last.attr)
            ELSE IF IsNeg(last.m.uncertainty) THEN UncertaintyMustBePositive(last.attr)
            ELSE IF IsNeg(last.m.relative_uncertainty)
            THEN RelativeUncertaintyMustBePositive(last.attr)
            ELSE IF last.m.unit # standard_units[last.attr]
            THEN UnitsMustBeStandard(last.attr)
            ELSE Ok

(* C21, its case: a Magnitude of negative value in a foreign unit was        *)
(* assigned and turned down for its value.                                   *)
NegativeValueReportedFirst ==
    /\ last.op = "setattr"
    /\ last.attr \in Attributes
    /\ last.m # NoMag
    /\ IsNeg(last.m.value)
    /\ last.m.unit # standard_units[last.attr]
    /\ last.err = ValueMustBePositive(last.attr)


(* C22: decay_factor(date) returns, for the decay time t of that date in    *)
(* days and the half-life t12 in days (the stored years times 365.242), a   *)
(* Magnitude of unit 'ND', value exp(-ln2 * t / t12) and relative           *)
(* uncertainty sqrt((ln2 * t / t12)^2 * (ur(t)^2 + ur(t12)^2)), ur(t12)     *)
(* being the relative uncertainty of the stored half-life.                  *)
DecayFactorFormula ==
    (/\ last.op = "decay_factor"
     /\ Valid(last.src)
     /\ decay_time(objs[last.src], heap, last.arg).err = Ok)
    => /\ last.err = Ok
       /\ last.made
       /\ last.m.unit = "ND"
       /\ last.m.value =
             NumExpNegLn2(RatDiv(RatInt(DaysTo(last.src, last.arg)),
                                 HalfLifeDays(last.src).q))
       /\ last.m.relative_uncertainty =
             NumLn2Root(RatDiv(RatInt(DaysTo(last.src, last.arg)),
                               HalfLifeDays(last.src).q),
                        RatAdd(RatSq(Rat(1, DaysTo(last.src, last.arg))),
                               RatSq(Held(last.src, "half_life").relative_uncertainty.q)))

(* C22, its case: the decay factor of a populated source a day after its    *)
(* calibration, below 1 and uncertain.                                       *)
DecayFactorReturned ==
    /\ last.op = "decay_factor"
    /\ Valid(last.src)
    /\ Parses(last.arg)
    /\ DaysTo(last.src, last.arg) > 0
    /\ last.err = Ok
    /\ last.m.unit = "ND"
    /\ last.m.value # One
    /\ ~IsZero(last.m.relative_uncertainty)


(* C23: for every pair of valid dates elapsed_time(initial_date,            *)
(* final_date) returns the triple (t, 1, 1 / t * 100), t being the whole    *)
(* days from the initial to the final date.                                  *)
ElapsedTimeTriple ==
    (/\ last.op = "elapsed_time"
     /\ Parses(last.obj.initial_date)
     /\ Parses(last.obj.final_date))
    => /\ last.err = Ok
       /\ last.obj.actual.t =
             PyInt(Ordinal(last.obj.final_date.y, last.obj.final_date.m,
                           last.obj.final_date.d)
                   - Ordinal(last.obj.initial_date.y, last.obj.initial_date.m,
                             last.obj.initial_date.d))
       /\ last.obj.actual.u_t = PyInt(1)
       /\ last.obj.actual.ur_t =
             PyMul(PyDiv(PyInt(1), last.obj.actual.t), PyInt(100))


(* C24: an assignment to a Magnitude attribute that is turned down leaves   *)
(* the Source as it was: after the error the attribute holds what it held   *)
(* before the statement.                                                     *)
RejectedAssignmentUndone ==
    [][ (/\ last'.op = "setattr"
         /\ last'.attr \in Attributes
         /\ last'.err # Ok)
        => objs'[last'.src][last'.attr] = objs[last'.src][last'.attr] ]_vars


(* The methods that compute a derived quantity. *)
DerivedQuantityMethods ==
    { "decay_time", "decay_factor", "strength", "fluence_rate",
      "ambient_dose_equivalent_rate" }

(* C25: decay_time, decay_factor, strength, fluence_rate and                *)
(* ambient_dose_equivalent_rate leave every attribute of the Source, every  *)
(* Magnitude that existed before the call and the caller's distance as they *)
(* were (the conversion to days in decay_factor works on a copy of the      *)
(* half-life), so that the same call made twice in a row ends the same way  *)
(* with equal results.                                                       *)
MethodsLeaveSourceUnchanged ==
    [][ last'.op \in DerivedQuantityMethods =>
          /\ objs' = objs
          /\ caller'.distance = caller.distance
          /\ \A i \in DOMAIN heap : heap'[i] = heap[i]
          /\ (last.op = last'.op /\ last.src = last'.src /\ last.arg = last'.arg)
             => (last'.err = last.err /\ last'.m = last.m) ]_vars

(* C25, its case: decay_factor was called twice on a populated source and   *)
(* the two Magnitudes it returned are equal.                                 *)
DecayFactorRepeated ==
    /\ last.op = "decay_factor"
    /\ last.err = Ok
    /\ Valid(last.src)
    /\ steps >= 2
    /\ last.obj = Ref(Len(heap))
    /\ heap[Len(heap)] = heap[Len(heap) - 1]
    /\ Held(last.src, "half_life").value = CfArgs["half_life"].value


(* C26: the Magnitude a derived-quantity method returns is never an         *)
(* instance stored in an attribute of a Source, for every date, the         *)
(* calibration date included: changing what was returned changes no         *)
(* attribute.                                                                *)
ReturnedNeverStored ==
    (/\ last.op \in DerivedQuantityMethods
     /\ last.err = Ok
     /\ IsRef(last.obj))
    => \A s \in DOMAIN objs : \A attr \in DOMAIN numeric_attributes(objs[s]) :
          objs[s][attr] # last.obj


(* C27: strength(date) returns the calibration strength unchanged for every *)
(* date string that denotes the calibration day, '2012/5/20' as well as     *)
(* '2012/05/20', not only for a string equal to calibration_date.           *)
StrengthOnCalibrationDay ==
    (/\ last.op = "strength"
     /\ Parses(objs[last.src]["calibration_date"])
     /\ Parses(last.arg)
     /\ DaysTo(last.src, last.arg) = 0
     /\ IsRef(objs[last.src]["calibration_strength"]))
    => /\ last.err = Ok
       /\ last.m = Held(last.src, "calibration_strength")


(* C28: no derived-quantity method returns a Magnitude of negative value:   *)
(* for a date before calibration_date decay_time and the methods built on   *)
(* it fail, and whatever a method returns has a value >= 0.                  *)
NoNegativeResult ==
    last.op \in DerivedQuantityMethods =>
        /\ (/\ Parses(objs[last.src]["calibration_date"])
            /\ Parses(last.arg)
            /\ DaysTo(last.src, last.arg) < 0)
           => last.err # Ok
        /\ last.err = Ok => ~IsNeg(last.m.value)


(* The Magnitude strength(date) hands to fluence_rate. *)
StrengthReturned(b) == IF b.fresh THEN b.m ELSE heap[b.obj.id]

(* C29: the relative uncertainty of the Magnitude fluence_rate returns is   *)
(* that of the closed form fluence_rate_relative_uncertainty on the         *)
(* relative uncertainties of the same strength, anisotropy factor and       *)
(* distance: sqrt(ur_b^2 + ur_fi^2 + 4 * ur_l^2).                            *)
FluenceRateAsClosedForm ==
    (last.op = "fluence_rate" /\ last.err = Ok) =>
        last.m.relative_uncertainty =
            fluence_rate_relative_uncertainty(
                StrengthReturned(strength(objs[last.src], heap, last.arg)).relative_uncertainty,
                Held(last.src, "anisotropy_factor").relative_uncertainty,
                heap[caller.distance.id].relative_uncertainty)


(* C30: Source() is constructed with every Magnitude attribute None, and    *)
(* assigning None to a Magnitude attribute is accepted without a            *)
(* consistency error on any Source, a populated one included: the attribute *)
(* is None afterwards.                                                       *)
NoneAccepted ==
    /\ (last.op = "construct" /\ last.arg = None) =>
          /\ last.err = Ok
          /\ \A attr \in Attributes : objs[last.src][attr] = None
    /\ (last.op = "setattr" /\ last.arg = None /\ last.obj = None
          /\ last.attr \in Attributes) =>
          /\ last.err = Ok
          /\ objs[last.src][last.attr] = None

(* C30, its case: a populated source after None was assigned to one of its  *)
(* attributes: that one is empty, the others hold their Magnitudes.          *)
PopulatedSourceEmptied ==
    /\ last.op = "setattr"
    /\ last.arg = None
    /\ last.obj = None
    /\ last.attr \in Attributes
    /\ last.err = Ok
    /\ objs[last.src][last.attr] = None
    /\ \A attr \in Attributes \ {last.attr} : IsRef(objs[last.src][attr])

============================================================================
